---- MODULE Spec2Model ----
(***************************************************************************)
(* Model of the projects/students CRUD backend (src/main.py): two SQLite   *)
(* tables, a session per request, and the eleven FastAPI handlers.         *)
(*                                                                         *)
(* A table is a set of rows; a row is a record with the columns of the     *)
(* SQLAlchemy model.  Optional (nullable) values are modelled as           *)
(* sequences of length at most one: None is << >> and a value v is <<v>>.  *)
(***************************************************************************)
EXTENDS Integers, Sequences, FiniteSets, TLC

\* ------------------------------------------------------------------------
\* Bounds
\* ------------------------------------------------------------------------

\* Largest primary key either table hands out in the model.
MaxId == 2

\* Sessions (requests in flight) of the interleaved specification.
Sessions == {"s1", "s2"}

\* ------------------------------------------------------------------------
\* Schemas
\* ------------------------------------------------------------------------

None == << >>

Some(v) == <<v>>

\* Columns a StudentBase payload carries (everything but the primary key).
StudentFields ==
    {"name", "email", "linkedin_profile", "about_you", "specialisation",
     "cgpa", "favourite_language", "favourite_framework", "is_leader",
     "project_id"}

\* Default of a field of StudentBase that the request body omits.
StudentDefault(f) == IF f = "is_leader" THEN FALSE ELSE None

\* StudentBase.model_dump(): every field, omitted optional ones defaulted.
\* A payload is a function from the fields the request body gives.
StudentDump(payload) ==
    [f \in StudentFields |->
        IF f \in DOMAIN payload THEN payload[f] ELSE StudentDefault(f)]

\* ProjectBase.model_dump(): both fields are required.
ProjectDump(payload) ==
    [project_name |-> payload.project_name,
     project_description |-> payload.project_description]

\* Student(**dump) / Project(**dump) once storage has assigned the key.
StudentRow(id, dump) == ("id" :> id) @@ dump

ProjectRow(id, dump) ==
    [id |-> id, project_name |-> dump.project_name,
     project_description |-> dump.project_description]

\* ------------------------------------------------------------------------
\* Request bodies the model draws from
\* ------------------------------------------------------------------------

\* Ids a request may address: every id that can exist and one that cannot.
AddressedIds == 1..(MaxId + 1)

ProjectPayloads ==
    {[project_name |-> "Alpha", project_description |-> "desc"],
     [project_name |-> "Beta", project_description |-> "other"]}

\* Bodies without project_id: only the required fields (every optional
\* field omitted) on either email, and every optional field given.
StudentBodies ==
    {[name |-> "A", email |-> "a@x.com"],
     [name |-> "B", email |-> "b@x.com", linkedin_profile |-> Some("in/b"),
      about_you |-> Some("about"), specialisation |-> Some("ml"),
      cgpa |-> Some(3), favourite_language |-> Some("py"),
      favourite_framework |-> Some("fastapi"), is_leader |-> TRUE],
     [name |-> "B", email |-> "b@x.com"]}

\* project_id of a body: omitted, or naming any addressable id.
StudentPayloads ==
    StudentBodies \cup
    {("project_id" :> Some(p)) @@ b : p \in AddressedIds, b \in StudentBodies}

\* ------------------------------------------------------------------------
\* Storage (SQLite through a SQLAlchemy session)
\* ------------------------------------------------------------------------

\* db.query(Model).get(id): the rows of the table with that primary key.
Get(table, id) == {r \in table : r.id = id}

Row(table, id) == CHOOSE r \in table : r.id = id

Ids(table) == {r.id : r \in table}

Max(S) == CHOOSE m \in S : \A x \in S : x <= m

\* Mutant of NextId: the largest key present is handed out again.
NextId_NoIncrement(table) == IF table = {} THEN 1 ELSE Max(Ids(table))

\* The key SQLite gives an inserted row of an INTEGER PRIMARY KEY column
\* declared without AUTOINCREMENT: one more than the largest key present.
NextId(table) == IF table = {} THEN 1 ELSE Max(Ids(table)) + 1

\* project.students: the lazy load of the one-to-many relationship.
StudentsOf(students, pid) == {s \in students : s.project_id = Some(pid)}

\* unique=True on Student.email: no two rows share an email.
EmailUnique(students) ==
    \A s, t \in students : s.email = t.email => s = t

\* HTTPException(404, "<Entity> not found")
NotFound(entity) ==
    [status |-> 404, detail |-> <<entity, "not found">>, body |-> << >>]

\* HTTPException(400, f"Project {project_id} does not exist")
InvalidReference(pid) ==
    [status |-> 400, detail |-> <<"Project", ToString(pid), "does not exist">>,
     body |-> << >>]

\* An exception no handler catches: FastAPI answers 500.
ServerError(kind) == [status |-> 500, detail |-> <<kind>>, body |-> << >>]

Ok(status, rows) == [status |-> status, detail |-> << >>, body |-> rows]

\* The outcome of a handler: the tables afterwards and the response.
Outcome(projects_, students_, resp) ==
    [projects |-> projects_, students |-> students_, resp |-> resp]

Store(projects_, students_) == [projects |-> projects_, students |-> students_]

\* Mutant of Commit: the email column has no UNIQUE constraint.
Commit_NoUnique(db, pending, stale, ok) ==
    IF stale
    THEN Outcome(db.projects, db.students, ServerError("StaleDataError"))
    ELSE Outcome(pending.projects, pending.students, ok)

\* Mutant of Commit: a failed flush is not rolled back.
Commit_NoRollback(db, pending, stale, ok) ==
    IF stale
    THEN Outcome(db.projects, db.students, ServerError("StaleDataError"))
    ELSE IF ~EmailUnique(pending.students)
    THEN Outcome(pending.projects, pending.students,
                 ServerError("IntegrityError"))
    ELSE Outcome(pending.projects, pending.students, ok)

\* db.commit(): flush the unit of work in one transaction.  db is the
\* committed store and pending the store with the session's writes applied.
\* stale says that an UPDATE of the flush matched no row (the row the
\* session loaded is gone): SQLAlchemy raises StaleDataError.  A UNIQUE
\* violation raises IntegrityError.  Either way the transaction is rolled
\* back; otherwise the writes are committed and ok is the response.
Commit(db, pending, stale, ok) ==
    IF stale
    THEN Outcome(db.projects, db.students, ServerError("StaleDataError"))
    ELSE IF ~EmailUnique(pending.students)
    THEN Outcome(db.projects, db.students, ServerError("IntegrityError"))
    ELSE Outcome(pending.projects, pending.students, ok)

\* A handler that raises before it writes: the store is as it was.
Raise(db, resp) == Outcome(db.projects, db.students, resp)

\* The rows of a table in rowid order, as a SELECT without ORDER BY gives.
RECURSIVE Rows(_)
Rows(table) ==
    IF table = {} THEN << >>
    ELSE LET r == CHOOSE x \in table : \A y \in table : x.id <= y.id
         IN  <<r>> \o Rows(table \ {r})

\* ------------------------------------------------------------------------
\* Units of work: what each handler's flush writes, given the current
\* store and the objects the session loaded earlier in the request.
\* ------------------------------------------------------------------------

\* INSERT INTO projects: the key comes from storage.
InsertProject(db, dump) ==
    Store(db.projects \cup {ProjectRow(NextId(db.projects), dump)}, db.students)

\* UPDATE projects SET <the attributes that differ from the loaded ones>.
UpdateProject(db, loaded, dump) ==
    Store({IF p.id = loaded.id
           THEN [p EXCEPT
                   !.project_name =
                       IF dump.project_name # loaded.project_name
                       THEN dump.project_name ELSE @,
                   !.project_description =
                       IF dump.project_description # loaded.project_description
                       THEN dump.project_description ELSE @]
           ELSE p : p \in db.projects},
          db.students)

\* Mutant of DeleteProject: the students keep their project_id.
DeleteProject_KeepRefs(db, pid, loadedStudents) ==
    Store({p \in db.projects : p.id # pid}, db.students)

\* Mutant of DeleteProject: the delete cascades to the students.
DeleteProject_Cascade(db, pid, loadedStudents) ==
    Store({p \in db.projects : p.id # pid},
          {s \in db.students : s.id \notin Ids(loadedStudents)})

\* for student in project.students: student.project_id = None, then
\* db.delete(project): UPDATE each loaded student, DELETE the project.
DeleteProject(db, pid, loadedStudents) ==
    Store({p \in db.projects : p.id # pid},
          {IF s.id \in Ids(loadedStudents)
           THEN [s EXCEPT !.project_id = None] ELSE s : s \in db.students})

\* INSERT INTO students.
InsertStudent(db, dump) ==
    Store(db.projects,
          db.students \cup {StudentRow(NextId(db.students), dump)})

\* Mutant of UpdateStudent: a patch, which skips the optional fields that
\* are None.
UpdateStudent_Patch(db, loaded, dump) ==
    Store(db.projects,
          {IF s.id = loaded.id
           THEN [f \in DOMAIN s |->
                   IF f \in {"name", "email", "is_leader"}
                   THEN dump[f]
                   ELSE IF f \in StudentFields /\ dump[f] # None
                   THEN dump[f] ELSE s[f]]
           ELSE s : s \in db.students})

\* setattr(student, field, value) for every field of the dump, then
\* UPDATE students SET <the attributes that differ from the loaded ones>.
UpdateStudent(db, loaded, dump) ==
    Store(db.projects,
          {IF s.id = loaded.id
           THEN [f \in DOMAIN s |->
                   IF f \in StudentFields /\ dump[f] # loaded[f]
                   THEN dump[f] ELSE s[f]]
           ELSE s : s \in db.students})

\* DELETE FROM students.
DeleteStudent(db, sid) ==
    Store(db.projects, {s \in db.students : s.id # sid})

\* An UPDATE of the flush addresses a row that is no longer in the table.
Stale(table, loadedRows) == \E r \in loadedRows : r.id \notin Ids(table)

\* ------------------------------------------------------------------------
\* Handlers, each run to completion on the store db
\* ------------------------------------------------------------------------

create_project(db, payload) ==
    LET pending == InsertProject(db, ProjectDump(payload))
        id == NextId(db.projects)
    IN  Commit(db, pending, FALSE, Ok(201, Rows(Get(pending.projects, id))))

list_projects(db) == Raise(db, Ok(200, Rows(db.projects)))

get_project(db, project_id) ==
    IF Get(db.projects, project_id) = {}
    THEN Raise(db, NotFound("Project"))
    ELSE Raise(db, Ok(200, <<Row(db.projects, project_id)>>))

update_project(db, project_id, payload) ==
    IF Get(db.projects, project_id) = {}
    THEN Raise(db, NotFound("Project"))
    ELSE LET project == Row(db.projects, project_id)
             pending == UpdateProject(db, project, ProjectDump(payload))
         IN  Commit(db, pending, Stale(db.projects, {project}),
                    Ok(200, Rows(Get(pending.projects, project_id))))

delete_project(db, project_id) ==
    IF Get(db.projects, project_id) = {}
    THEN Raise(db, NotFound("Project"))
    ELSE LET loaded == StudentsOf(db.students, project_id)
         IN  Commit(db, DeleteProject(db, project_id, loaded),
                    Stale(db.students, loaded), Ok(204, << >>))

\* The project with its students collection resolved.
list_projects_with_students(db, project_id) ==
    IF Get(db.projects, project_id) = {}
    THEN Raise(db, NotFound("Project"))
    ELSE Raise(db, Ok(200, <<Row(db.projects, project_id)>>
                           \o Rows(StudentsOf(db.students, project_id))))

\* Mutant of create_student: the project is not looked up.
create_student_NoCheck(db, payload) ==
    LET pending == InsertStudent(db, StudentDump(payload))
        id == NextId(db.students)
    IN  Commit(db, pending, FALSE, Ok(201, Rows(Get(pending.students, id))))

create_student(db, payload) ==
    LET dump == StudentDump(payload)
    IN  IF dump.project_id # None /\ Get(db.projects, dump.project_id[1]) = {}
        THEN Raise(db, InvalidReference(dump.project_id[1]))
        ELSE LET pending == InsertStudent(db, dump)
                 id == NextId(db.students)
             IN  Commit(db, pending, FALSE,
                        Ok(201, Rows(Get(pending.students, id))))

list_students(db) == Raise(db, Ok(200, Rows(db.students)))

get_student(db, student_id) ==
    IF Get(db.students, student_id) = {}
    THEN Raise(db, NotFound("Student"))
    ELSE Raise(db, Ok(200, <<Row(db.students, student_id)>>))

\* Mutant of update_student: the lookup of the project is not guarded by
\* "is not None", so a null project_id is looked up and not found.
update_student_NoNoneGuard(db, student_id, payload) ==
    LET dump == StudentDump(payload)
    IN  IF Get(db.students, student_id) = {}
        THEN Raise(db, NotFound("Student"))
        ELSE IF dump.project_id = None
        THEN Raise(db, [status |-> 400, body |-> << >>,
                        detail |-> <<"Project", "None", "does not exist">>])
        ELSE IF Get(db.projects, dump.project_id[1]) = {}
        THEN Raise(db, InvalidReference(dump.project_id[1]))
        ELSE LET student == Row(db.students, student_id)
                 pending == UpdateStudent(db, student, dump)
             IN  Commit(db, pending, Stale(db.students, {student}),
                        Ok(200, Rows(Get(pending.students, student_id))))

\* Mutant of update_student: the project reference is checked before the
\* student is looked up.
update_student_ReferenceFirst(db, student_id, payload) ==
    LET dump == StudentDump(payload)
    IN  IF dump.project_id # None
           /\ Get(db.projects, dump.project_id[1]) = {}
        THEN Raise(db, InvalidReference(dump.project_id[1]))
        ELSE IF Get(db.students, student_id) = {}
        THEN Raise(db, NotFound("Student"))
        ELSE LET student == Row(db.students, student_id)
                 pending == UpdateStudent(db, student, dump)
             IN  Commit(db, pending, Stale(db.students, {student}),
                        Ok(200, Rows(Get(pending.students, student_id))))

update_student(db, student_id, payload) ==
    LET dump == StudentDump(payload)
    IN  IF Get(db.students, student_id) = {}
        THEN Raise(db, NotFound("Student"))
        ELSE IF dump.project_id # None
                /\ Get(db.projects, dump.project_id[1]) = {}
        THEN Raise(db, InvalidReference(dump.project_id[1]))
        ELSE LET student == Row(db.students, student_id)
                 pending == UpdateStudent(db, student, dump)
             IN  Commit(db, pending, Stale(db.students, {student}),
                        Ok(200, Rows(Get(pending.students, student_id))))

delete_student(db, student_id) ==
    IF Get(db.students, student_id) = {}
    THEN Raise(db, NotFound("Student"))
    ELSE Commit(db, DeleteStudent(db, student_id), FALSE, Ok(204, << >>))

\* ------------------------------------------------------------------------
\* State
\* ------------------------------------------------------------------------

VARIABLES
    projects,     \* the projects table
    students,     \* the students table
    req,          \* the request being answered: its response and the store
                  \* it found, until its session is closed
    issued,       \* ids that create_project has returned so far
    asCreated,    \* project rows as created, not updated or deleted since
    sess          \* per session: the position of its request in flight

vars == <<projects, students, req, issued, asCreated, sess>>

DB == Store(projects, students)

Idle == [pc |-> "idle", id |-> None, dump |-> None, loaded |-> {}]

Request(op, id, payload, resp) ==
    [op |-> op, id |-> id, payload |-> payload, resp |-> resp,
     pre |-> [projects |-> projects, students |-> students, issued |-> issued]]

NoRequest ==
    [op |-> "none", id |-> None, payload |-> None, resp |-> Ok(200, << >>),
     pre |-> [projects |-> {}, students |-> {}, issued |-> {}]]

\* Base.metadata.create_all on a new database file: both tables empty.
Init ==
    /\ projects = {}
    /\ students = {}
    /\ req = NoRequest
    /\ issued = {}
    /\ asCreated = {}
    /\ sess = [s \in Sessions |-> Idle]

\* The handler of request op runs to completion with outcome out; no other
\* request is being answered.
Completes(op, id, payload, out) ==
    /\ req = NoRequest
    /\ projects' = out.projects
    /\ students' = out.students
    /\ req' = Request(op, id, payload, out.resp)
    /\ UNCHANGED sess

\* get_db's finally: the response has gone out and the session is closed.
Close ==
    /\ req # NoRequest
    /\ req' = NoRequest
    /\ UNCHANGED <<projects, students, issued, asCreated, sess>>

Succeeded(resp) == resp.status \in {200, 201, 204}

\* ------------------------------------------------------------------------
\* Requests, one at a time
\* ------------------------------------------------------------------------

CreateProject ==
    \E payload \in ProjectPayloads :
        LET out == create_project(DB, payload) IN
        /\ NextId(projects) <= MaxId
        /\ Completes("create_project", None, Some(payload), out)
        /\ issued' = IF Succeeded(out.resp)
                     THEN issued \cup {out.resp.body[1].id} ELSE issued
        /\ asCreated' = IF Succeeded(out.resp)
                        THEN asCreated \cup {out.resp.body[1]} ELSE asCreated

ListProjects ==
    /\ Completes("list_projects", None, None, list_projects(DB))
    /\ UNCHANGED <<issued, asCreated>>

GetProject ==
    \E id \in AddressedIds :
        /\ Completes("get_project", Some(id), None, get_project(DB, id))
        /\ UNCHANGED <<issued, asCreated>>

UpdateProjectReq ==
    \E id \in AddressedIds, payload \in ProjectPayloads :
        LET out == update_project(DB, id, payload) IN
        /\ Completes("update_project", Some(id), Some(payload), out)
        /\ asCreated' = IF Succeeded(out.resp)
                        THEN {r \in asCreated : r.id # id} ELSE asCreated
        /\ UNCHANGED issued

DeleteProjectReq ==
    \E id \in AddressedIds :
        LET out == delete_project(DB, id) IN
        /\ Completes("delete_project", Some(id), None, out)
        /\ asCreated' = IF Succeeded(out.resp)
                        THEN {r \in asCreated : r.id # id} ELSE asCreated
        /\ UNCHANGED issued

ListProjectsWithStudents ==
    \E id \in AddressedIds :
        /\ Completes("list_projects_with_students", Some(id), None,
                     list_projects_with_students(DB, id))
        /\ UNCHANGED <<issued, asCreated>>

CreateStudent ==
    \E payload \in StudentPayloads :
        /\ NextId(students) <= MaxId
        /\ Completes("create_student", None, Some(payload),
                     create_student(DB, payload))
        /\ UNCHANGED <<issued, asCreated>>

ListStudents ==
    /\ Completes("list_students", None, None, list_students(DB))
    /\ UNCHANGED <<issued, asCreated>>

GetStudent ==
    \E id \in AddressedIds :
        /\ Completes("get_student", Some(id), None, get_student(DB, id))
        /\ UNCHANGED <<issued, asCreated>>

UpdateStudentReq ==
    \E id \in AddressedIds, payload \in StudentPayloads :
        /\ Completes("update_student", Some(id), Some(payload),
                     update_student(DB, id, payload))
        /\ UNCHANGED <<issued, asCreated>>

DeleteStudentReq ==
    \E id \in AddressedIds :
        /\ Completes("delete_student", Some(id), None, delete_student(DB, id))
        /\ UNCHANGED <<issued, asCreated>>

Next ==
    \/ CreateProject
    \/ ListProjects
    \/ GetProject
    \/ UpdateProjectReq
    \/ DeleteProjectReq
    \/ ListProjectsWithStudents
    \/ CreateStudent
    \/ ListStudents
    \/ GetStudent
    \/ UpdateStudentReq
    \/ DeleteStudentReq
    \/ Close

Spec == Init /\ [][Next]_vars

\* ------------------------------------------------------------------------
\* Requests on separate sessions, interleaved statement by statement.
\* FastAPI runs each def handler on a worker thread with a session of its
\* own.  A SELECT runs outside any transaction (the sqlite3 driver opens
\* one only before the first write), so no lock is held between the
\* queries of a handler; the flush and COMMIT of db.commit() are one
\* transaction, which SQLite serialises against the other writers.
\* SQLite does not enforce the ForeignKey (PRAGMA foreign_keys is off).
\* Responses are not recorded here: req, issued and asCreated stay put.
\* ------------------------------------------------------------------------

\* Ids the interleaved requests address: those that can exist.
ConcIds == 1..MaxId

\* Bodies the interleaved requests draw from: the required fields, with
\* project_id omitted or naming an id that can exist.
ConcStudentPayloads ==
    {pl \in StudentPayloads :
        /\ DOMAIN pl \subseteq {"name", "email", "project_id"}
        /\ "project_id" \in DOMAIN pl => pl.project_id[1] \in ConcIds}

At(s, pc) == sess[s].pc = pc

Goto(s, pc, id, dump, loaded) ==
    sess' = [sess EXCEPT
               ![s] = [pc |-> pc, id |-> id, dump |-> dump, loaded |-> loaded]]

End(s) == sess' = [sess EXCEPT ![s] = Idle]

Writes(out) ==
    /\ projects' = out.projects
    /\ students' = out.students

NoWrite == UNCHANGED <<projects, students>>

Unrecorded == UNCHANGED <<req, issued, asCreated>>

\* create_project: its only statements are the INSERT and COMMIT.
ConcCreateProject(s) ==
    \E payload \in ProjectPayloads :
        /\ At(s, "idle")
        /\ NextId(projects) <= MaxId
        /\ Writes(create_project(DB, payload))
        /\ End(s)
        /\ Unrecorded

\* update_project, line 133: project = db.query(Project).get(project_id)
UpGet(s) ==
    \E id \in ConcIds, payload \in ProjectPayloads :
        /\ At(s, "idle")
        /\ IF Get(projects, id) = {}
           THEN End(s)
           ELSE Goto(s, "up_commit", Some(id), Some(ProjectDump(payload)),
                     Get(projects, id))
        /\ NoWrite
        /\ Unrecorded

\* update_project, line 139: db.commit()
UpCommit(s) ==
    /\ At(s, "up_commit")
    /\ LET project == CHOOSE p \in sess[s].loaded : TRUE
       IN  Writes(Commit(DB, UpdateProject(DB, project, sess[s].dump[1]),
                         Stale(projects, {project}), Ok(200, << >>)))
    /\ End(s)
    /\ Unrecorded

\* delete_project, line 145: project = db.query(Project).get(project_id)
DpGet(s) ==
    \E id \in ConcIds :
        /\ At(s, "idle")
        /\ IF Get(projects, id) = {}
           THEN End(s)
           ELSE Goto(s, "dp_load", Some(id), None, {})
        /\ NoWrite
        /\ Unrecorded

\* delete_project, line 149: project.students is loaded
DpLoad(s) ==
    /\ At(s, "dp_load")
    /\ Goto(s, "dp_commit", sess[s].id, None,
            StudentsOf(students, sess[s].id[1]))
    /\ NoWrite
    /\ Unrecorded

\* delete_project, lines 150-153: the loaded students are nulled, the
\* project deleted, db.commit().  A DELETE that matches no row only warns.
DpCommit(s) ==
    /\ At(s, "dp_commit")
    /\ Writes(Commit(DB, DeleteProject(DB, sess[s].id[1], sess[s].loaded),
                     Stale(students, sess[s].loaded), Ok(204, << >>)))
    /\ End(s)
    /\ Unrecorded

\* create_student, lines 172-174: the project is looked up when given
CsLookup(s) ==
    \E payload \in ConcStudentPayloads :
        LET dump == StudentDump(payload) IN
        /\ At(s, "idle")
        /\ IF dump.project_id # None /\ Get(projects, dump.project_id[1]) = {}
           THEN End(s)
           ELSE Goto(s, "cs_commit", None, Some(dump), {})
        /\ NoWrite
        /\ Unrecorded

\* create_student, lines 176-178: db.add(new_student); db.commit()
CsCommit(s) ==
    /\ At(s, "cs_commit")
    /\ NextId(students) <= MaxId
    /\ Writes(Commit(DB, InsertStudent(DB, sess[s].dump[1]), FALSE,
                     Ok(201, << >>)))
    /\ End(s)
    /\ Unrecorded

\* update_student, line 195: student = db.query(Student).get(student_id)
UsGet(s) ==
    \E id \in ConcIds, payload \in ConcStudentPayloads :
        /\ At(s, "idle")
        /\ IF Get(students, id) = {}
           THEN End(s)
           ELSE Goto(s, "us_lookup", Some(id), Some(StudentDump(payload)),
                     Get(students, id))
        /\ NoWrite
        /\ Unrecorded

\* update_student, lines 199-201: the project is looked up when given
UsLookup(s) ==
    /\ At(s, "us_lookup")
    /\ LET dump == sess[s].dump[1]
       IN  IF dump.project_id # None /\ Get(projects, dump.project_id[1]) = {}
           THEN End(s)
           ELSE Goto(s, "us_commit", sess[s].id, sess[s].dump, sess[s].loaded)
    /\ NoWrite
    /\ Unrecorded

\* update_student, lines 203-206: the setattr loop and db.commit()
UsCommit(s) ==
    /\ At(s, "us_commit")
    /\ LET student == CHOOSE r \in sess[s].loaded : TRUE
       IN  Writes(Commit(DB, UpdateStudent(DB, student, sess[s].dump[1]),
                         Stale(students, {student}), Ok(200, << >>)))
    /\ End(s)
    /\ Unrecorded

\* delete_student, line 212: student = db.query(Student).get(student_id)
DsGet(s) ==
    \E id \in ConcIds :
        /\ At(s, "idle")
        /\ IF Get(students, id) = {}
           THEN End(s)
           ELSE Goto(s, "ds_commit", Some(id), None, {})
        /\ NoWrite
        /\ Unrecorded

\* delete_student, lines 215-216: db.delete(student); db.commit()
DsCommit(s) ==
    /\ At(s, "ds_commit")
    /\ Writes(Commit(DB, DeleteStudent(DB, sess[s].id[1]), FALSE,
                     Ok(204, << >>)))
    /\ End(s)
    /\ Unrecorded

NextConc ==
    \E s \in Sessions :
        \/ ConcCreateProject(s)
        \/ UpGet(s)
        \/ UpCommit(s)
        \/ DpGet(s)
        \/ DpLoad(s)
        \/ DpCommit(s)
        \/ CsLookup(s)
        \/ CsCommit(s)
        \/ UsGet(s)
        \/ UsLookup(s)
        \/ UsCommit(s)
        \/ DsGet(s)
        \/ DsCommit(s)

SpecConc == Init /\ [][NextConc]_vars

\* ------------------------------------------------------------------------
\* Properties of the requests run one at a time (Spec)
\* ------------------------------------------------------------------------

Answered(op) == req.op = op

\* The project_id of the student payload being answered, defaulted.
ReqProjectId == StudentDump(req.payload[1]).project_id

StoreUnchanged == projects = req.pre.projects /\ students = req.pre.students

Referencing(students_, pid) == {s \in students_ : s.project_id = Some(pid)}

\* C1: in every state reached by completed requests, each student's
\* project_id is null or the id of a project that exists.
C1_ReferentialIntegrity ==
    \A s \in students :
        s.project_id = None \/ \E p \in projects : s.project_id = Some(p.id)

\* A project that students referenced has been deleted while another
\* student still references a project that exists.
C1_Witness ==
    /\ Answered("delete_project")
    /\ req.resp.status = 204
    /\ Referencing(req.pre.students, req.id[1]) # {}
    /\ \E s \in students : s.project_id # None

\* C2: delete_project on an existing project keeps every student row,
\* nulls project_id on exactly the students that referenced it, leaves the
\* other students as they were, and a following get_project answers 404.
C2_DeleteProjectNullsStudents ==
    (Answered("delete_project") /\ Get(req.pre.projects, req.id[1]) # {}) =>
        /\ req.resp.status = 204
        /\ Cardinality(students) = Cardinality(req.pre.students)
        /\ \A s \in req.pre.students :
              IF s.project_id = req.id
              THEN [s EXCEPT !.project_id = None] \in students
              ELSE s \in students
        /\ get_project(DB, req.id[1]).resp.status = 404

\* A project with a referencing student was deleted while another student
\* referenced another project.
C2_Witness ==
    /\ Answered("delete_project")
    /\ req.resp.status = 204
    /\ Referencing(req.pre.students, req.id[1]) # {}
    /\ \E s \in req.pre.students :
          s.project_id # None /\ s.project_id # req.id

\* C3: create_student with a project_id naming no existing project answers
\* 400 and leaves the students table as it was.
C3_CreateStudentInvalidReference ==
    (/\ Answered("create_student")
     /\ ReqProjectId # None
     /\ ReqProjectId[1] \notin Ids(req.pre.projects)) =>
        /\ req.resp.status = 400
        /\ students = req.pre.students

\* A create_student naming a missing project was answered while projects
\* and students existed.
C3_Witness ==
    /\ Answered("create_student")
    /\ ReqProjectId # None
    /\ ReqProjectId[1] \notin Ids(req.pre.projects)
    /\ req.pre.projects # {}
    /\ req.pre.students # {}

\* The email of the payload belongs to an existing student other than the
\* one the request addresses.
EmailTaken ==
    \E s \in req.pre.students :
        /\ s.email = req.payload[1].email
        /\ req.id # Some(s.id)

\* C4 as claimed: update_student on an existing student with project_id
\* null succeeds whatever the other fields are, and stores null.
C4_Original ==
    (/\ Answered("update_student")
     /\ req.id[1] \in Ids(req.pre.students)
     /\ ReqProjectId = None) =>
        /\ req.resp.status = 200
        /\ Row(students, req.id[1]).project_id = None

\* C4 amended: update_student on an existing student with project_id null
\* and an email no other student holds succeeds, whatever the prior
\* project_id, and stores null.
C4_UpdateNullProjectSucceeds ==
    (/\ Answered("update_student")
     /\ req.id[1] \in Ids(req.pre.students)
     /\ ReqProjectId = None
     /\ ~EmailTaken) =>
        /\ req.resp.status = 200
        /\ req.resp.body[1].project_id = None
        /\ Row(students, req.id[1]).project_id = None

\* A student that referenced a project was updated with project_id null.
C4_Witness ==
    /\ Answered("update_student")
    /\ req.resp.status = 200
    /\ ReqProjectId = None
    /\ Row(req.pre.students, req.id[1]).project_id # None

\* C5: no two students share an email, and a create_student or
\* update_student whose email is that of a different existing student
\* fails and leaves the store as it was.
C5_EmailUnique ==
    /\ \A s, t \in students : s.email = t.email => s.id = t.id
    /\ ((Answered("create_student") \/ Answered("update_student"))
        /\ EmailTaken) =>
            /\ ~Succeeded(req.resp)
            /\ StoreUnchanged

\* An update that passed both lookups was refused by the UNIQUE constraint.
C5_Witness ==
    /\ Answered("update_student")
    /\ EmailTaken
    /\ req.resp = ServerError("IntegrityError")

MutatingOps ==
    {"create_project", "update_project", "delete_project",
     "create_student", "update_student", "delete_student"}

\* C6: a mutating request that fails (404, 400 or a constraint violation)
\* leaves both tables as they were; one that succeeds has its row written
\* (create, update) or removed (delete).
C6_AllOrNothing ==
    (req.op \in MutatingOps) =>
        /\ req.resp.status \in {200, 201, 204, 400, 404, 500}
        /\ ~Succeeded(req.resp) => StoreUnchanged
        /\ (Succeeded(req.resp) /\ req.op \in {"create_project", "update_project"})
              => req.resp.body[1] \in projects
        /\ (Succeeded(req.resp) /\ req.op \in {"create_student", "update_student"})
              => req.resp.body[1] \in students
        /\ (Succeeded(req.resp) /\ req.op = "delete_project")
              => /\ req.id[1] \notin Ids(projects)
                 /\ Referencing(students, req.id[1]) = {}
        /\ (Succeeded(req.resp) /\ req.op = "delete_student")
              => req.id[1] \notin Ids(students)

\* An update_student failed at commit with a payload that differs from the
\* stored row in a field other than email.
C6_Witness ==
    /\ Answered("update_student")
    /\ req.resp.status = 500
    /\ Row(req.pre.students, req.id[1]).name # req.payload[1].name

\* C7 as claimed: the id a create_project returns was returned by no
\* earlier create_project.
C7_Original ==
    (Answered("create_project") /\ Succeeded(req.resp)) =>
        req.resp.body[1].id \notin req.pre.issued

\* C7 amended: the id a create_project returns is the id of no project
\* existing at that moment (so no two coexisting projects share an id; the
\* id of a deleted project may be returned again), the returned row carries
\* the payload, and get_project on a project neither updated nor deleted
\* since its creation returns the fields given at creation.
C7_IdsUniqueAmongExisting ==
    /\ \A p, q \in projects : p.id = q.id => p = q
    /\ (Answered("create_project") /\ Succeeded(req.resp)) =>
          /\ req.resp.body[1].id \notin Ids(req.pre.projects)
          /\ req.resp.body[1].project_name = req.payload[1].project_name
          /\ req.resp.body[1].project_description
                = req.payload[1].project_description
    /\ \A r \in asCreated : get_project(DB, r.id).resp = Ok(200, <<r>>)

\* A create_project returned an id returned before, while another project
\* existed.
C7_Witness ==
    /\ Answered("create_project")
    /\ Succeeded(req.resp)
    /\ req.resp.body[1].id \in req.pre.issued
    /\ req.pre.projects # {}

\* C8: after a successful update_student every field but id holds the
\* payload's value, an omitted optional field holds its default (null, or
\* false for is_leader); the id, the other students and the projects are
\* as they were.
C8_UpdateStudentReplaces ==
    (Answered("update_student") /\ Succeeded(req.resp)) =>
        LET row == Row(students, req.id[1])
            payload == req.payload[1]
        IN  /\ \A f \in StudentFields :
                  row[f] = IF f \in DOMAIN payload THEN payload[f]
                           ELSE IF f = "is_leader" THEN FALSE ELSE << >>
            /\ row = req.resp.body[1]
            /\ Ids(students) = Ids(req.pre.students)
            /\ \A s \in req.pre.students : s.id # req.id[1] => s \in students
            /\ projects = req.pre.projects

\* A student with a cgpa, leading, in a project, was updated by a payload
\* that omits all three, while another student existed.
C8_Witness ==
    /\ Answered("update_student")
    /\ Succeeded(req.resp)
    /\ LET old == Row(req.pre.students, req.id[1])
       IN  /\ old.cgpa # None
           /\ old.is_leader
           /\ old.project_id # None
    /\ DOMAIN req.payload[1] = {"name", "email"}
    /\ Cardinality(students) = 2

ByIdOps ==
    {"get_project", "update_project", "delete_project",
     "get_student", "update_student", "delete_student"}

Entity(op) ==
    IF op \in {"get_project", "update_project", "delete_project"}
    THEN "Project" ELSE "Student"

\* The table the request addresses, as the request found it.
Addressed ==
    IF Entity(req.op) = "Project" THEN req.pre.projects ELSE req.pre.students

Names(detail, word) == \E i \in DOMAIN detail : detail[i] = word

\* C9 as claimed: get, update and delete addressed to an absent id answer
\* 404 with a message naming the entity and the id, and change nothing.
C9_Original ==
    (req.op \in ByIdOps /\ req.id[1] \notin Ids(Addressed)) =>
        /\ req.resp.status = 404
        /\ Names(req.resp.detail, Entity(req.op))
        /\ Names(req.resp.detail, ToString(req.id[1]))
        /\ StoreUnchanged

\* C9 amended: get, update and delete addressed to an absent id answer 404
\* with the message "<Entity> not found", which names the entity and not
\* the id, and change nothing; update_student answers 404 for an absent
\* student even when the payload's project_id is invalid too.
C9_NotFound ==
    (req.op \in ByIdOps /\ req.id[1] \notin Ids(Addressed)) =>
        /\ req.resp.status = 404
        /\ req.resp.detail = <<Entity(req.op), "not found">>
        /\ ~Names(req.resp.detail, ToString(req.id[1]))
        /\ StoreUnchanged

\* update_student addressed an absent student with a project_id that names
\* no project either.
C9_Witness ==
    /\ Answered("update_student")
    /\ req.id[1] \notin Ids(req.pre.students)
    /\ ReqProjectId # None
    /\ ReqProjectId[1] \notin Ids(req.pre.projects)
    /\ req.resp.status = 404

\* ------------------------------------------------------------------------
\* Properties of the interleaved requests (SpecConc)
\* ------------------------------------------------------------------------

\* C10: with the statements of two handlers interleaved, no student holds
\* a project_id that names no existing project.
C10_InterleavedReferentialIntegrity ==
    {s \in students :
        s.project_id # None /\ s.project_id[1] \notin Ids(projects)} = {}

====
